---- MODULE Spec2Model ----
(***************************************************************************)
(* State-machine models of the repository's own logic:                     *)
(*   - agents/agent_with_mcp/task_server.py   (task store + tasks.json)    *)
(*   - utils/retry.py                         (retry_with_backoff)         *)
(*   - langchain_langgraph/langgraph_weather_agent.py                      *)
(*                                            (_request_with_retries)      *)
(*   - examples/tool_agent.py, examples/tool_agent_with_mcp.py             *)
(*                                            (execute_tool)               *)
(*   - examples/multi_agent.py                (_execute_parallel)          *)
(*   - super_personal_agent/backend/main.py   (serve_file)                 *)
(* Each component has its own specification over its own variables; the    *)
(* variables of the other components stay at their initial values.         *)
(***************************************************************************)
EXTENDS Integers, Sequences, FiniteSets, TLC

VARIABLES
    \* ---- task_server.py ----
    tasks,          \* _tasks: id string -> task dictionary
    next_task_id,   \* _next_task_id
    tasks_file,     \* contents of TASKS_FILE (tasks.json)
    clock,          \* datetime.now(): every call returns a later instant
    req,            \* the tool call being served
    resp,           \* the dictionary it returned
    saved,          \* what _save_tasks did during the call: "none", "ok", "failed"
    issued,         \* history: the IDs returned by successful create_task calls
    save_failures,  \* history: number of _save_tasks calls that failed
    restarts,       \* history: number of server restarts
    \* ---- utils/retry.py ----
    r_params,       \* the decorator's arguments
    r_pc,           \* where wrapper is: "idle", "loop", "returned", "raised", "fell_through"
    r_attempt,      \* attempt (the loop variable)
    r_delay,        \* delay
    r_log,          \* history: the outcome of every invocation of func
    r_sleeps,       \* history: the argument of every time.sleep
    r_result,       \* what wrapper returned or raised
    \* ---- langgraph_weather_agent.py ----
    h_url,          \* the URL requested
    h_pc,           \* where _request_with_retries is: "idle", "loop", "returned", "raised"
    h_attempt,      \* attempt (the loop variable)
    h_log,          \* history: how every requests.request call ended
    h_sleeps,       \* history: the argument of every time.sleep, in tenths of a second
    h_result,       \* the response returned or the exception raised
    \* ---- tool_agent.py, tool_agent_with_mcp.py ----
    t_module,       \* the script whose execute_tool is called
    t_name,         \* function_name
    t_args,         \* args
    t_calls,        \* history: the tool functions that ran during the call, with their arguments
    t_result,       \* the string execute_tool returned
    t_raised,       \* whether execute_tool raised instead of returning
    t_notes,        \* create_note.notes of tool_agent.py
    \* ---- multi_agent.py ----
    p_names,        \* agent_names
    p_consult,      \* enable_consultation
    p_pc,           \* main thread: "idle", "submit", "collect", "returned"
    p_submitted,    \* number of names for which executor.submit has been called
    p_thr,          \* per agent name: the worker running execute_agent(name)
    p_results,      \* results
    p_yielded,      \* the futures as_completed has yielded (by agent name)
    p_generated,    \* history: number of agent.generate calls per agent
    p_ret,          \* the dictionary _execute_parallel returned
    \* ---- super_personal_agent/backend/main.py ----
    f_pc,           \* "idle", or "responded" once serve_file has answered a request
    f_path,         \* file_path of the request
    f_response,     \* the response: status code, file served, media type
    d_pc,           \* "idle", or "responded" once the router has answered a request
    d_request,      \* the request: method and path segments
    d_endpoint,     \* the endpoint function the router called ("" for none)
    d_params,       \* the path parameter handed to the endpoint
    d_response,     \* the response: status code and what it carries
    a_pc,           \* "idle", or "responded" once transcribe_audio has answered
    a_request,      \* the request and what it meets: audio_path, language,
                    \* whether multimodal_tools imports, what speech_to_text does
    a_response,     \* the response: status code and detail or transcript
    c_file,         \* HISTORY_FILE: whether it holds valid JSON, and its entries
    c_current_id,   \* current_conversation_id
    c_uuid,         \* the next value uuid.uuid4() returns
    c_calls,        \* add_conversation_entry calls so far
    c_resets,       \* reset_agent_conversation calls so far
    c_failures,     \* save_history calls that failed so far
    c_added,        \* every entry added to the history so far, oldest first
    c_entry,        \* the entry the last add_conversation_entry returned
    agent_camera_enabled,   \* agent_camera_enabled
    camera_capture_queue,   \* camera_capture_queue
    cam_uuid,       \* the next value uuid.uuid4() returns to the camera endpoints
    cam_issued,     \* the capture ids handed out so far
    cam_response    \* the last response of a camera endpoint

taskVars == <<tasks, next_task_id, tasks_file, clock, req, resp, saved,
              issued, save_failures, restarts>>

retryVars == <<r_params, r_pc, r_attempt, r_delay, r_log, r_sleeps, r_result>>

httpVars == <<h_url, h_pc, h_attempt, h_log, h_sleeps, h_result>>

toolVars == <<t_module, t_name, t_args, t_calls, t_result, t_raised, t_notes>>

parVars == <<p_names, p_consult, p_pc, p_submitted, p_thr, p_results, p_yielded,
             p_generated, p_ret>>

fileVars == <<f_pc, f_path, f_response>>

routeVars == <<d_pc, d_request, d_endpoint, d_params, d_response>>

audioVars == <<a_pc, a_request, a_response>>

historyVars == <<c_file, c_current_id, c_uuid, c_calls, c_resets, c_failures,
                 c_added, c_entry>>

cameraVars == <<agent_camera_enabled, camera_capture_queue, cam_uuid, cam_issued,
                cam_response>>

vars == <<taskVars, retryVars, httpVars, toolVars, parVars, fileVars, routeVars,
          audioVars, historyVars, cameraVars>>

\* A step of one component leaves the other components alone
TaskFrame ==
    UNCHANGED <<retryVars, httpVars, toolVars, parVars, fileVars, routeVars, audioVars,
                historyVars, cameraVars>>
RetryFrame ==
    UNCHANGED <<taskVars, httpVars, toolVars, parVars, fileVars, routeVars, audioVars,
                historyVars, cameraVars>>
HttpFrame ==
    UNCHANGED <<taskVars, retryVars, toolVars, parVars, fileVars, routeVars, audioVars,
                historyVars, cameraVars>>
ToolFrame ==
    UNCHANGED <<taskVars, retryVars, httpVars, parVars, fileVars, routeVars, audioVars,
                historyVars, cameraVars>>
ParFrame ==
    UNCHANGED <<taskVars, retryVars, httpVars, toolVars, fileVars, routeVars, audioVars,
                historyVars, cameraVars>>
FileFrame ==
    UNCHANGED <<taskVars, retryVars, httpVars, toolVars, parVars, routeVars, audioVars,
                historyVars, cameraVars>>
RouteFrame ==
    UNCHANGED <<taskVars, retryVars, httpVars, toolVars, parVars, fileVars, audioVars,
                historyVars, cameraVars>>
AudioFrame ==
    UNCHANGED <<taskVars, retryVars, httpVars, toolVars, parVars, fileVars, routeVars,
                historyVars, cameraVars>>
HistoryFrame ==
    UNCHANGED <<taskVars, retryVars, httpVars, toolVars, parVars, fileVars, routeVars,
                audioVars, cameraVars>>
CameraFrame ==
    UNCHANGED <<taskVars, retryVars, httpVars, toolVars, parVars, fileVars, routeVars,
                audioVars, historyVars>>

\* ------------------------------------------------------------------------
\* Bounds of the model
\* ------------------------------------------------------------------------
MaxId == 2            \* create_task is called while _next_task_id <= MaxId
MaxSaveFailures == 1  \* _save_tasks calls that fail
MaxRestarts == 1      \* restarts of the server process
MaxRetriesBound == 2  \* max_retries is drawn from -1..MaxRetriesBound
MaxArgs == 2          \* execute_tool is called with at most MaxArgs arguments
MaxAgents == 3        \* _execute_parallel is called with 2..MaxAgents agent names
MaxSegments == 3      \* a requested file path has at most MaxSegments segments
MaxRouteSegments == 4 \* a request path has at most MaxRouteSegments segments after /api
MaxAudioSegments == 2 \* an audio_path has at most MaxAudioSegments segments
MaxAdds == 2          \* add_conversation_entry calls of one server process
MaxResets == 1        \* reset_agent_conversation calls of one server process
MaxHistorySaveFailures == 1  \* save_history calls that fail
MaxCaptures == 4      \* capture ids agent_capture_photo hands out

\* ------------------------------------------------------------------------
\* Strings: a string is a sequence of characters
\* ------------------------------------------------------------------------
RECURSIVE LStrip(_)
LStrip(s) == IF s = <<>> THEN s
             ELSE IF Head(s) = " " THEN LStrip(Tail(s)) ELSE s

RECURSIVE RStrip(_)
RStrip(s) == IF s = <<>> THEN s
             ELSE IF s[Len(s)] = " " THEN RStrip(SubSeq(s, 1, Len(s) - 1)) ELSE s

\* str.strip()
Strip(s) == RStrip(LStrip(s))

\* str(n) for n >= 0: the decimal digits of n
RECURSIVE Str(_)
Str(n) == IF n < 10 THEN <<n>> ELSE Str(n \div 10) \o <<n % 10>>

\* str.lower() on the status filters the model offers
Lower(s) == CASE s = "PENDING" -> "pending"
              [] s = "Completed" -> "completed"
              [] OTHER -> s

\* An Optional[str] argument: None, or a string
None == [isNone |-> TRUE, s |-> <<>>]
Some(s) == [isNone |-> FALSE, s |-> s]
\* Python truthiness of an Optional[str]
Truthy(o) == ~o.isNone /\ o.s # <<>>

\* ------------------------------------------------------------------------
\* Inputs
\* ------------------------------------------------------------------------
Titles == {<<>>, <<" ", " ">>, <<" ", "a", " ">>}
Descriptions == {Some(<<" ", "d">>)}
TaskIdArgs == {Str(i) : i \in 1..MaxId} \cup {<<0, 1>>}
StatusArgs == {"", "PENDING", "completed", "done"}

NoReq == [op |-> "none", title |-> <<>>, description |-> None,
          task_id |-> <<>>, status |-> ""]
NoResp == [kind |-> "none", error |-> "", task_id |-> <<>>, tasks |-> <<>>]

ErrorResp(e) == [kind |-> "error", error |-> e, task_id |-> <<>>, tasks |-> <<>>]
SuccessResp(id, ts) == [kind |-> "success", error |-> "", task_id |-> id, tasks |-> ts]

\* ------------------------------------------------------------------------
\* tasks.json
\* ------------------------------------------------------------------------
NoFile == [state |-> "absent", data |-> <<>>]
CorruptFile == [state |-> "corrupt", data |-> <<>>]

\* The dictionary _save_tasks hands to json.dump
SaveDataNoNextId(ts, nid) == ("tasks" :> ts)

SaveData(ts, nid) == ("tasks" :> ts) @@ ("next_id" :> nid)

\* The file after _save_tasks: json.dump of the data when the write succeeds; when
\* it fails, either open() failed (file as before) or the dump broke off after
\* open(..., 'w') truncated the file (not valid JSON)
SaveOutcomes(file, ts, nid) ==
    {[ok |-> TRUE, file |-> [state |-> "json", data |-> SaveData(ts, nid)]]}
    \cup (IF save_failures < MaxSaveFailures
          THEN {[ok |-> FALSE, file |-> file], [ok |-> FALSE, file |-> CorruptFile]}
          ELSE {})

\* _load_tasks on a fresh process (_tasks = {}, _next_task_id = 1)
LoadTasks(file) ==
    IF file.state = "json"
    THEN [tasks |-> IF "tasks" \in DOMAIN file.data THEN file.data["tasks"] ELSE <<>>,
          next_id |-> IF "next_id" \in DOMAIN file.data THEN file.data["next_id"] ELSE 1]
    ELSE [tasks |-> <<>>, next_id |-> 1]

\* ------------------------------------------------------------------------
\* task_server.py: the tools
\* ------------------------------------------------------------------------
\* The ID create_task gives the new task
NewTaskIdByCount(ts, nid) == Str(Cardinality(DOMAIN ts) + 1)

NewTaskId(ts, nid) == Str(nid)

\* create_task's check: not title or not title.strip()
IsBlankTitleEmptyOnly(title) == title = <<>>

IsBlankTitle(title) == title = <<>> \/ Strip(title) = <<>>

\* complete_task's check: task.get("status") == "completed"
AlreadyCompletedUnchecked(t) == FALSE

AlreadyCompleted(t) == t.status = "completed"

\* The task dictionary create_task builds
NewTask(id, title, description, now) ==
    [id |-> id,
     title |-> Strip(title),
     description |-> IF Truthy(description) THEN Strip(description.s) ELSE <<>>,
     status |-> "pending",
     created_at |-> now]

\* task["status"] = "completed"; task["completed_at"] = now
Completed(t, now) ==
    [k \in DOMAIN t \cup {"completed_at"} |->
        IF k = "status" THEN "completed"
        ELSE IF k = "completed_at" THEN now ELSE t[k]]

\* dict with key k set to v (appended when absent)
DictPut(d, k, v) == [x \in DOMAIN d \cup {k} |-> IF x = k THEN v ELSE d[x]]
\* del d[k]
DictDel(d, k) == [x \in DOMAIN d \ {k} |-> d[x]]

\* int(id) of an ID string made by Str
RECURSIVE IdNum(_)
IdNum(s) == IF s = <<>> THEN 0 ELSE 10 * IdNum(SubSeq(s, 1, Len(s) - 1)) + s[Len(s)]

\* list(_tasks.values()): a dict keeps insertion order, and every key was
\* inserted by create_task in increasing ID order
RECURSIVE ValuesOf(_, _)
ValuesOf(d, keys) ==
    IF keys = {} THEN <<>>
    ELSE LET k == CHOOSE x \in keys : \A y \in keys : IdNum(x) <= IdNum(y)
         IN <<d[k]>> \o ValuesOf(d, keys \ {k})

\* list.sort(key=created_at, reverse=True): stable, equal keys keep their order
RECURSIVE InsertDesc(_, _)
InsertDesc(sorted, t) ==
    IF sorted = <<>> THEN <<t>>
    ELSE IF Head(sorted).created_at >= t.created_at
         THEN <<Head(sorted)>> \o InsertDesc(Tail(sorted), t)
         ELSE <<t>> \o sorted

RECURSIVE SortNewestFirst(_)
SortNewestFirst(l) ==
    IF l = <<>> THEN <<>>
    ELSE InsertDesc(SortNewestFirst(SubSeq(l, 1, Len(l) - 1)), l[Len(l)])

create_task(title, description) ==
    /\ next_task_id <= MaxId
    /\ req' = [NoReq EXCEPT !.op = "create_task", !.title = title,
                            !.description = description]
    /\ IF IsBlankTitle(title)
       THEN /\ resp' = ErrorResp("Task title cannot be empty.")
            /\ saved' = "none"
            /\ UNCHANGED <<tasks, next_task_id, tasks_file, clock, issued, save_failures>>
       ELSE LET task_id == NewTaskId(tasks, next_task_id)
                nid == next_task_id + 1
                ts == DictPut(tasks, task_id, NewTask(task_id, title, description, clock))
            IN \E out \in SaveOutcomes(tasks_file, ts, nid) :
                /\ next_task_id' = nid
                /\ tasks' = ts
                /\ tasks_file' = out.file
                /\ saved' = IF out.ok THEN "ok" ELSE "failed"
                /\ save_failures' = save_failures + (IF out.ok THEN 0 ELSE 1)
                /\ issued' = Append(issued, task_id)
                /\ resp' = SuccessResp(task_id, <<ts[task_id]>>)
                /\ clock' = clock + 1
    /\ UNCHANGED restarts

list_tasks(status) ==
    /\ req' = [NoReq EXCEPT !.op = "list_tasks", !.status = status]
    /\ IF status # ""
       THEN LET st == Lower(status)
            IN IF st \notin {"pending", "completed"}
               THEN resp' = ErrorResp("Invalid status filter.")
               ELSE LET keep == {k \in DOMAIN tasks : tasks[k].status = st}
                    IN resp' = SuccessResp(<<>>, SortNewestFirst(ValuesOf(tasks, keep)))
       ELSE resp' = SuccessResp(<<>>, SortNewestFirst(ValuesOf(tasks, DOMAIN tasks)))
    /\ saved' = "none"
    /\ UNCHANGED <<tasks, next_task_id, tasks_file, clock, issued, save_failures, restarts>>

complete_task(task_id) ==
    /\ req' = [NoReq EXCEPT !.op = "complete_task", !.task_id = task_id]
    /\ IF task_id \notin DOMAIN tasks
       THEN /\ resp' = ErrorResp("not found")
            /\ saved' = "none"
            /\ UNCHANGED <<tasks, tasks_file, clock, save_failures>>
       ELSE IF AlreadyCompleted(tasks[task_id])
       THEN /\ resp' = ErrorResp("already completed")
            /\ saved' = "none"
            /\ UNCHANGED <<tasks, tasks_file, clock, save_failures>>
       ELSE LET ts == [tasks EXCEPT ![task_id] = Completed(tasks[task_id], clock)]
            IN \E out \in SaveOutcomes(tasks_file, ts, next_task_id) :
                /\ tasks' = ts
                /\ tasks_file' = out.file
                /\ saved' = IF out.ok THEN "ok" ELSE "failed"
                /\ save_failures' = save_failures + (IF out.ok THEN 0 ELSE 1)
                /\ resp' = SuccessResp(task_id, <<ts[task_id]>>)
                /\ clock' = clock + 1
    /\ UNCHANGED <<next_task_id, issued, restarts>>

delete_task(task_id) ==
    /\ req' = [NoReq EXCEPT !.op = "delete_task", !.task_id = task_id]
    /\ IF task_id \notin DOMAIN tasks
       THEN /\ resp' = ErrorResp("not found")
            /\ saved' = "none"
            /\ UNCHANGED <<tasks, tasks_file, save_failures>>
       ELSE LET ts == DictDel(tasks, task_id)
            IN \E out \in SaveOutcomes(tasks_file, ts, next_task_id) :
                /\ tasks' = ts
                /\ tasks_file' = out.file
                /\ saved' = IF out.ok THEN "ok" ELSE "failed"
                /\ save_failures' = save_failures + (IF out.ok THEN 0 ELSE 1)
                /\ resp' = SuccessResp(task_id, <<>>)
    /\ UNCHANGED <<next_task_id, clock, issued, restarts>>

get_task(task_id) ==
    /\ req' = [NoReq EXCEPT !.op = "get_task", !.task_id = task_id]
    /\ IF task_id \notin DOMAIN tasks
       THEN resp' = ErrorResp("not found")
       ELSE resp' = SuccessResp(task_id, <<tasks[task_id]>>)
    /\ saved' = "none"
    /\ UNCHANGED <<tasks, next_task_id, tasks_file, clock, issued, save_failures, restarts>>

\* The server process ends and a new one starts: module initialisation
\* (_tasks = {}, _next_task_id = 1) followed by _load_tasks()
Restart ==
    /\ restarts < MaxRestarts
    /\ restarts' = restarts + 1
    /\ LET loaded == LoadTasks(tasks_file)
       IN /\ tasks' = loaded.tasks
          /\ next_task_id' = loaded.next_id
    /\ req' = NoReq
    /\ resp' = NoResp
    /\ saved' = "none"
    /\ UNCHANGED <<tasks_file, clock, issued, save_failures>>
    /\ TaskFrame

TaskInit ==
    /\ tasks = <<>>
    /\ next_task_id = 1
    /\ tasks_file = NoFile
    /\ clock = 0
    /\ req = NoReq
    /\ resp = NoResp
    /\ saved = "none"
    /\ issued = <<>>
    /\ save_failures = 0
    /\ restarts = 0

CreateTask ==
    /\ \E title \in Titles, description \in Descriptions :
            create_task(title, description)
    /\ TaskFrame

ListTasks ==
    /\ \E status \in StatusArgs : list_tasks(status)
    /\ TaskFrame

CompleteTask ==
    /\ \E task_id \in TaskIdArgs : complete_task(task_id)
    /\ TaskFrame

DeleteTask ==
    /\ \E task_id \in TaskIdArgs : delete_task(task_id)
    /\ TaskFrame

GetTask ==
    /\ \E task_id \in TaskIdArgs : get_task(task_id)
    /\ TaskFrame

\* ------------------------------------------------------------------------
\* utils/retry.py: retry_with_backoff
\* ------------------------------------------------------------------------
\* Delays are whole seconds. random.uniform(0, 1) yields 0..JitterMax.
JitterMax == 1

MaxRetriesArgs == -1..MaxRetriesBound
InitialDelays == {1, 3}
MaxDelays == {2, 5}
ExponentialBases == {1, 2}

\* An exception message is a sequence of words
Messages == {<<"HTTP", "429">>, <<"Quota", "exceeded">>, <<"RATE LIMIT", "hit">>,
             <<"please", "retry">>, <<"boom">>}

\* str.lower() on the words of the messages
LowerWord(w) == CASE w = "Quota" -> "quota"
                  [] w = "RATE LIMIT" -> "rate limit"
                  [] w = "HTTP" -> "http"
                  [] OTHER -> w

LowerMsg(m) == [i \in DOMAIN m |-> LowerWord(m[i])]

\* "w" in message
Contains(m, w) == \E i \in DOMAIN m : m[i] = w

\* is_rate_limit
IsRateLimit(m) ==
    \/ Contains(m, "429")
    \/ Contains(LowerMsg(m), "quota")
    \/ Contains(LowerMsg(m), "rate limit")
    \/ Contains(LowerMsg(m), "retry")

\* What one invocation of func does: return a value, or raise
FuncOutcomes == {[kind |-> "ok", msg |-> <<>>]}
                \cup {[kind |-> "error", msg |-> m] : m \in Messages}

Min(a, b) == IF a <= b THEN a ELSE b

\* attempt < max_retries (both tests of it in the except branch)
MayRetryInclusive(attempt, max_retries) == attempt <= max_retries

MayRetry(attempt, max_retries) == attempt < max_retries

\* actual_delay: delay plus jitter, capped at max_delay
ActualDelayCapFirst(delay, j, max_delay) == Min(delay, max_delay) + j

ActualDelay(delay, j, max_delay) == Min(delay + j, max_delay)

NoResult == [kind |-> "none", call |-> 0, msg |-> <<>>]

RetryInit ==
    /\ r_params = [max_retries |-> 0, initial_delay |-> 1, max_delay |-> 2,
                   exponential_base |-> 1, jitter |-> FALSE]
    /\ r_pc = "idle"
    /\ r_attempt = 0
    /\ r_delay = 0
    /\ r_log = <<>>
    /\ r_sleeps = <<>>
    /\ r_result = NoResult

\* A decorated function is called: wrapper starts with delay = initial_delay
wrapper(max_retries, initial_delay, max_delay, exponential_base, jitter) ==
    /\ r_pc # "loop"
    /\ r_params' = [max_retries |-> max_retries, initial_delay |-> initial_delay,
                    max_delay |-> max_delay, exponential_base |-> exponential_base,
                    jitter |-> jitter]
    /\ r_pc' = "loop"
    /\ r_attempt' = 0
    /\ r_delay' = initial_delay
    /\ r_log' = <<>>
    /\ r_sleeps' = <<>>
    /\ r_result' = NoResult

\* One iteration of "for attempt in range(max_retries + 1)"
RetryAttempt ==
    /\ r_pc = "loop"
    /\ r_attempt <= r_params.max_retries
    /\ \E out \in FuncOutcomes :
        LET log == Append(r_log, out)
        IN /\ r_log' = log
           /\ IF out.kind = "ok"
              THEN /\ r_pc' = "returned"
                   /\ r_result' = [kind |-> "value", call |-> Len(log), msg |-> <<>>]
                   /\ UNCHANGED <<r_attempt, r_delay, r_sleeps>>
              ELSE IF ~IsRateLimit(out.msg) /\ MayRetry(r_attempt, r_params.max_retries)
              THEN /\ r_pc' = "raised"
                   /\ r_result' = [kind |-> "exception", call |-> Len(log), msg |-> out.msg]
                   /\ UNCHANGED <<r_attempt, r_delay, r_sleeps>>
              ELSE IF MayRetry(r_attempt, r_params.max_retries)
              THEN /\ \E j \in (IF r_params.jitter THEN 0..JitterMax ELSE {0}) :
                        r_sleeps' = Append(r_sleeps,
                                           ActualDelay(r_delay, j, r_params.max_delay))
                   /\ r_delay' = r_delay * r_params.exponential_base
                   /\ r_attempt' = r_attempt + 1
                   /\ UNCHANGED <<r_pc, r_result>>
              ELSE /\ r_pc' = "raised"
                   /\ r_result' = [kind |-> "exception", call |-> Len(log), msg |-> out.msg]
                   /\ UNCHANGED <<r_attempt, r_delay, r_sleeps>>
    /\ UNCHANGED r_params
    /\ RetryFrame

\* The for loop ends without a return or raise: wrapper returns None
RetryFallThrough ==
    /\ r_pc = "loop"
    /\ r_attempt > r_params.max_retries
    /\ r_pc' = "fell_through"
    /\ r_result' = [kind |-> "value_none", call |-> 0, msg |-> <<>>]
    /\ UNCHANGED <<r_params, r_attempt, r_delay, r_log, r_sleeps>>
    /\ RetryFrame

CallWrapper ==
    /\ \E max_retries \in MaxRetriesArgs, initial_delay \in InitialDelays,
          max_delay \in MaxDelays, exponential_base \in ExponentialBases,
          jitter \in BOOLEAN :
            wrapper(max_retries, initial_delay, max_delay, exponential_base, jitter)
    /\ RetryFrame

\* ------------------------------------------------------------------------
\* langgraph_weather_agent.py: _request_with_retries
\* ------------------------------------------------------------------------
RETRY_ATTEMPTS == 2
\* RETRY_BACKOFF_SECS = 0.6, in tenths of a second
RETRY_BACKOFF_TENTHS == 6

Urls == {"OPEN_METEO_GEOCODE_URL", "OPEN_METEO_FORECAST_URL"}

\* How one requests.request call ends: a response with a status code (requests
\* returns 4xx and 5xx responses, it does not raise for them), an exception
\* derived from RequestException, or another exception
HttpStatuses == {200, 404, 429, 500, 503}
RequestExceptions == {"ConnectionError", "Timeout"}
OtherExceptions == {"TypeError"}

RequestOutcomes ==
    {[kind |-> "response", status |-> st, exc |-> ""] : st \in HttpStatuses}
    \cup {[kind |-> "exception", status |-> 0, exc |-> e] :
             e \in RequestExceptions \cup OtherExceptions}

\* except (RequestException, Timeout)
IsCaught(out) == out.kind = "exception" /\ out.exc \in RequestExceptions

NoOutcome == [kind |-> "none", status |-> 0, exc |-> ""]

HttpInit ==
    /\ h_url = "OPEN_METEO_GEOCODE_URL"
    /\ h_pc = "idle"
    /\ h_attempt = 0
    /\ h_log = <<>>
    /\ h_sleeps = <<>>
    /\ h_result = NoOutcome

\* geocode_city or current_weather calls _request_with_retries("GET", url)
_request_with_retries(url) ==
    /\ h_pc # "loop"
    /\ h_url' = url
    /\ h_pc' = "loop"
    /\ h_attempt' = 0
    /\ h_log' = <<>>
    /\ h_sleeps' = <<>>
    /\ h_result' = NoOutcome

RequestWithRetries ==
    /\ \E url \in Urls : _request_with_retries(url)
    /\ HttpFrame

\* One iteration of "for attempt in range(RETRY_ATTEMPTS + 1)"
RequestAttempt ==
    /\ h_pc = "loop"
    /\ h_attempt <= RETRY_ATTEMPTS
    /\ \E out \in RequestOutcomes :
        /\ h_log' = Append(h_log, out)
        /\ IF out.kind = "response"
           THEN \* return requests.request(...)
                /\ h_pc' = "returned"
                /\ h_result' = out
                /\ UNCHANGED <<h_attempt, h_sleeps>>
           ELSE IF ~IsCaught(out)
           THEN \* the except clause does not match: the exception propagates
                /\ h_pc' = "raised"
                /\ h_result' = out
                /\ UNCHANGED <<h_attempt, h_sleeps>>
           ELSE IF h_attempt < RETRY_ATTEMPTS
           THEN /\ h_sleeps' = Append(h_sleeps, RETRY_BACKOFF_TENTHS * (h_attempt + 1))
                /\ h_attempt' = h_attempt + 1
                /\ UNCHANGED <<h_pc, h_result>>
           ELSE \* raise last_exc
                /\ h_pc' = "raised"
                /\ h_result' = out
                /\ UNCHANGED <<h_attempt, h_sleeps>>
    /\ UNCHANGED h_url
    /\ HttpFrame

\* ------------------------------------------------------------------------
\* examples/tool_agent.py, examples/tool_agent_with_mcp.py: execute_tool
\* ------------------------------------------------------------------------
Modules == {"tool_agent", "tool_agent_with_mcp"}

\* TOOL_FUNCTIONS and NATIVE_TOOL_FUNCTIONS
TOOL_FUNCTIONS(module) ==
    IF module = "tool_agent"
    THEN {"calculator", "web_search", "get_weather", "get_current_time",
          "create_note", "get_note"}
    ELSE {"calculator", "web_search", "get_current_time"}

\* The parameters of the tool functions: required, and with a default
Required(name) ==
    CASE name = "calculator" -> {"expression"}
      [] name = "web_search" -> {"query"}
      [] name = "get_weather" -> {"location"}
      [] name = "get_current_time" -> {}
      [] name = "create_note" -> {"title", "content"}
      [] name = "get_note" -> {"title"}

Optional(name) ==
    CASE name = "web_search" -> {"num_results"}
      [] name = "get_current_time" -> {"timezone"}
      [] OTHER -> {}

\* func(**args) binds: no required parameter is missing and no keyword is
\* unexpected; otherwise Python raises TypeError before the function runs
Binds(name, args) ==
    /\ Required(name) \subseteq DOMAIN args
    /\ DOMAIN args \subseteq Required(name) \cup Optional(name)

FunctionNames == {"calculator", "web_search", "get_weather", "get_current_time",
                  "create_note", "get_note", "send_email"}
ArgNames == {"expression", "query", "num_results", "location", "timezone",
             "title", "content", "verbose"}

\* The value the caller gives an argument
GivenValue(a) == IF a = "num_results" THEN 3 ELSE "v"

ArgDicts == {[a \in S |-> GivenValue(a)] :
                S \in {T \in SUBSET ArgNames : Cardinality(T) <= MaxArgs}}

\* "Handle optional parameters with defaults"
WithDefaultsAlways(name, args) ==
    IF name = "web_search"
    THEN [a \in DOMAIN args \cup {"num_results"} |->
             IF a = "num_results" THEN 5 ELSE args[a]]
    ELSE IF name = "get_current_time"
    THEN [a \in DOMAIN args \cup {"timezone"} |->
             IF a = "timezone" THEN "UTC" ELSE args[a]]
    ELSE args

WithDefaults(name, args) ==
    IF name = "web_search" /\ "num_results" \notin DOMAIN args
    THEN [a \in DOMAIN args \cup {"num_results"} |->
             IF a = "num_results" THEN 5 ELSE args[a]]
    ELSE IF name = "get_current_time" /\ "timezone" \notin DOMAIN args
    THEN [a \in DOMAIN args \cup {"timezone"} |->
             IF a = "timezone" THEN "UTC" ELSE args[a]]
    ELSE args

\* The strings execute_tool builds; a string is a sequence of pieces
NotFoundMessage(module, name) ==
    IF module = "tool_agent"
    THEN <<"Error: Tool '", name, "' not found">>
    ELSE <<"Error: Tool '", name, "' not found in native tools">>

TypeErrorMessage(name) == <<"Error executing ", name, ": ", "TypeError">>

\* except TypeError
CaughtByExecuteTool(exc) == exc = "TypeError"

\* What the tool function returns (every tool returns a string)
ToolOutput(name) == <<"output of ", name>>

ToolInit ==
    /\ t_module = "tool_agent"
    /\ t_name = ""
    /\ t_args = <<>>
    /\ t_calls = <<>>
    /\ t_result = <<>>
    /\ t_raised = FALSE
    /\ t_notes = <<>>

execute_tool(module, function_name, args) ==
    /\ t_module' = module
    /\ t_name' = function_name
    /\ t_args' = args
    /\ IF function_name \in TOOL_FUNCTIONS(module)
       THEN LET kwargs == WithDefaults(function_name, args)
            IN IF Binds(function_name, kwargs)
               THEN /\ t_calls' = <<[func |-> function_name, args |-> kwargs]>>
                    /\ t_result' = ToolOutput(function_name)
                    /\ t_raised' = FALSE
                    /\ t_notes' = IF function_name = "create_note" /\ module = "tool_agent"
                                  THEN DictPut(t_notes, kwargs["title"], kwargs["content"])
                                  ELSE t_notes
               ELSE \* func(**args) raises TypeError
                    /\ t_calls' = <<>>
                    /\ IF CaughtByExecuteTool("TypeError")
                       THEN /\ t_result' = TypeErrorMessage(function_name)
                            /\ t_raised' = FALSE
                       ELSE /\ t_result' = <<>>
                            /\ t_raised' = TRUE
                    /\ UNCHANGED t_notes
       ELSE /\ t_calls' = <<>>
            /\ t_result' = NotFoundMessage(module, function_name)
            /\ t_raised' = FALSE
            /\ UNCHANGED t_notes

ExecuteTool ==
    /\ \E module \in Modules, function_name \in FunctionNames, args \in ArgDicts :
            execute_tool(module, function_name, args)
    /\ ToolFrame

\* ------------------------------------------------------------------------
\* examples/multi_agent.py: MultiAgentOrchestrator._execute_parallel
\* ------------------------------------------------------------------------
\* self.agents after _initialize_default_agents
Agents == {"ResearchAgent", "TaskAgent", "TechnicalAgent", "CommunicationAgent"}

\* The lists of distinct registered agent names the router can hand over
\* (route() replaces a list with an unregistered name by a registered one)
AgentNameLists ==
    {l \in UNION {[1..n -> Agents] : n \in 2..MaxAgents} :
        \A i, j \in DOMAIN l : i # j => l[i] # l[j]}

Range(f) == {f[x] : x \in DOMAIN f}

\* A response is the text agent.generate returned: whose it is, and whether
\* it was generated with the context of other agents
Response(name, refined) == [by |-> name, refined |-> refined]
NoResponse == [by |-> "", refined |-> FALSE]

\* The dictionary execute_agent returns
NoAgentResult == [agent |-> "", response |-> NoResponse, original |-> NoResponse]

IdleThread == [pc |-> "idle", response |-> NoResponse, i |-> 0, context |-> {},
               result |-> NoAgentResult]

\* other_agents = [a for a in agent_names if a != agent_name]
OtherAgents(names, name) == SelectSeq(names, LAMBDA a : a # name)

\* The key under which the main thread stores a worker's result
ResultKeyFirstName(result) == p_names[1]

ResultKey(result) == result["agent"]

ParInit ==
    /\ p_names = <<>>
    /\ p_consult = FALSE
    /\ p_pc = "idle"
    /\ p_submitted = 0
    /\ p_thr = [a \in Agents |-> IdleThread]
    /\ p_results = <<>>
    /\ p_yielded = {}
    /\ p_generated = [a \in Agents |-> 0]
    /\ p_ret = [agents |-> <<>>, responses |-> <<>>, mode |-> ""]

\* _execute_parallel(query, agent_names, enable_consultation): results = {}
_execute_parallel(agent_names, enable_consultation) ==
    /\ p_names' = agent_names
    /\ p_consult' = enable_consultation
    /\ p_pc' = "submit"
    /\ p_submitted' = 0
    /\ p_thr' = [a \in Agents |-> IdleThread]
    /\ p_results' = <<>>
    /\ p_yielded' = {}
    /\ p_generated' = [a \in Agents |-> 0]
    /\ p_ret' = [agents |-> <<>>, responses |-> <<>>, mode |-> ""]

ExecuteParallel ==
    /\ p_pc \in {"idle", "returned"}
    /\ \E agent_names \in AgentNameLists, enable_consultation \in BOOLEAN :
            _execute_parallel(agent_names, enable_consultation)
    /\ ParFrame

\* executor.submit(execute_agent, name), for the names in order; the pool has
\* one worker per name, so the task starts on a thread of its own
Submit ==
    /\ p_pc = "submit"
    /\ p_submitted < Len(p_names)
    /\ p_submitted' = p_submitted + 1
    /\ p_thr' = [p_thr EXCEPT ![p_names[p_submitted + 1]].pc = "generate"]
    /\ p_pc' = IF p_submitted + 1 = Len(p_names) THEN "collect" ELSE "submit"
    /\ UNCHANGED <<p_names, p_consult, p_results, p_yielded, p_generated, p_ret>>
    /\ ParFrame

\* Worker: response = agent.generate(query)
Generate(name) ==
    /\ p_thr[name].pc = "generate"
    /\ p_generated' = [p_generated EXCEPT ![name] = @ + 1]
    /\ LET response == Response(name, FALSE)
       IN IF p_consult /\ Len(p_names) > 1
          THEN p_thr' = [p_thr EXCEPT ![name].response = response,
                                      ![name].pc = "context", ![name].i = 1]
          ELSE p_thr' = [p_thr EXCEPT ![name].response = response,
                                      ![name].pc = "done",
                                      ![name].result =
                                          [agent |-> name, response |-> response,
                                           original |-> NoResponse]]
    /\ UNCHANGED <<p_names, p_consult, p_pc, p_submitted, p_results, p_yielded, p_ret>>
    /\ ParFrame

\* Worker: one iteration of "for other_name in other_agents", reading the
\* results dictionary the main thread is filling; after the last one,
\* "if context" decides between refining and returning the first response
GatherContext(name) ==
    /\ p_thr[name].pc = "context"
    /\ LET others == OtherAgents(p_names, name)
           t == p_thr[name]
       IN IF t.i <= Len(others)
          THEN LET other_name == others[t.i]
               IN p_thr' = [p_thr EXCEPT
                      ![name].context = IF other_name \in DOMAIN p_results
                                        THEN @ \cup {[agent |-> other_name,
                                                      response |-> p_results[other_name].response]}
                                        ELSE @,
                      ![name].i = @ + 1]
          ELSE IF t.context # {}
          THEN p_thr' = [p_thr EXCEPT ![name].pc = "refine"]
          ELSE p_thr' = [p_thr EXCEPT
                      ![name].pc = "done",
                      ![name].result = [agent |-> name, response |-> t.response,
                                        original |-> NoResponse]]
    /\ UNCHANGED <<p_names, p_consult, p_pc, p_submitted, p_results, p_yielded,
                   p_generated, p_ret>>
    /\ ParFrame

\* Worker: refined = agent.generate(..., context=context)
Refine(name) ==
    /\ p_thr[name].pc = "refine"
    /\ p_generated' = [p_generated EXCEPT ![name] = @ + 1]
    /\ p_thr' = [p_thr EXCEPT
            ![name].pc = "done",
            ![name].result = [agent |-> name, response |-> Response(name, TRUE),
                              original |-> p_thr[name].response]]
    /\ UNCHANGED <<p_names, p_consult, p_pc, p_submitted, p_results, p_yielded, p_ret>>
    /\ ParFrame

\* Main thread: as_completed yields a finished future;
\* result = future.result(); results[result["agent"]] = result
Collect ==
    /\ p_pc = "collect"
    /\ \E name \in Range(p_names) \ p_yielded :
        /\ p_thr[name].pc = "done"
        /\ LET result == p_thr[name].result
           IN p_results' = DictPut(p_results, ResultKey(result), result)
        /\ p_yielded' = p_yielded \cup {name}
    /\ UNCHANGED <<p_names, p_consult, p_pc, p_submitted, p_thr, p_generated, p_ret>>
    /\ ParFrame

\* Main thread: as_completed is exhausted, the with block ends (shutdown waits
\* for the workers) and the dictionary is returned
ReturnParallel ==
    /\ p_pc = "collect"
    /\ p_yielded = Range(p_names)
    /\ \A name \in Range(p_names) : p_thr[name].pc = "done"
    /\ p_pc' = "returned"
    /\ p_ret' = [agents |-> p_names, responses |-> p_results, mode |-> "parallel"]
    /\ UNCHANGED <<p_names, p_consult, p_submitted, p_thr, p_results, p_yielded,
                   p_generated>>
    /\ ParFrame

WorkerGenerate == \E name \in Agents : Generate(name)
WorkerGatherContext == \E name \in Agents : GatherContext(name)
WorkerRefine == \E name \in Agents : Refine(name)

\* ------------------------------------------------------------------------
\* super_personal_agent/backend/main.py: serve_file
\* ------------------------------------------------------------------------
\* A path string is a sequence of pieces; the piece "/" separates its
\* segments, and a name is one or more pieces ("generated_images" followed by
\* "_old" is the name generated_images_old)
GENERATED_IMAGES == <<"generated_images">>
GENERATED_AUDIO == <<"generated_audio">>
GENERATED_IMAGES_OLD == <<"generated_images", "_old">>
DOTDOT == <<"..">>
PNG_FILE == <<"a", ".png">>
MP3_FILE == <<"b", ".mp3">>
ENV_FILE == <<".env">>

SegmentNames == {GENERATED_IMAGES, GENERATED_AUDIO, GENERATED_IMAGES_OLD, DOTDOT,
                 PNG_FILE, MP3_FILE, ENV_FILE}

\* "/".join(segments)
RECURSIVE Join(_)
Join(segs) == IF segs = <<>> THEN <<>>
              ELSE IF Len(segs) = 1 THEN segs[1]
              ELSE segs[1] \o <<"/">> \o Join(Tail(segs))

\* The file paths a client can request
FilePaths == {Join(segs) : segs \in UNION {[1..n -> SegmentNames] : n \in 0..MaxSegments}}

\* str.startswith and str.endswith
StartsWith(str, prefix) ==
    Len(str) >= Len(prefix) /\ SubSeq(str, 1, Len(prefix)) = prefix
EndsWith(str, suffix) ==
    Len(str) >= Len(suffix) /\ SubSeq(str, Len(str) - Len(suffix) + 1, Len(str)) = suffix

\* The segments of a path string
RECURSIVE Split(_, _)
Split(str, cur) ==
    IF str = <<>> THEN (IF cur = <<>> THEN <<>> ELSE <<cur>>)
    ELSE IF Head(str) = "/"
         THEN (IF cur = <<>> THEN <<>> ELSE <<cur>>) \o Split(Tail(str), <<>>)
         ELSE Split(Tail(str), Append(cur, Head(str)))

\* The file system: absolute paths as sequences of names. base_dir is /app.
BaseDir == <<<<"app">>>>
Directories == {<<>>, BaseDir,
                BaseDir \o <<GENERATED_IMAGES>>,
                BaseDir \o <<GENERATED_AUDIO>>,
                BaseDir \o <<GENERATED_IMAGES_OLD>>,
                BaseDir \o <<<<"super_personal_agent">>>>,
                BaseDir \o <<<<"super_personal_agent">>, <<"uploads">>>>,
                BaseDir \o <<<<"super_personal_agent">>, <<"uploads">>, <<"images">>>>,
                BaseDir \o <<<<"super_personal_agent">>, <<"uploads">>, <<"audio">>>>}
Files == {BaseDir \o <<ENV_FILE>>,
          BaseDir \o <<GENERATED_IMAGES, PNG_FILE>>,
          BaseDir \o <<GENERATED_AUDIO, MP3_FILE>>,
          BaseDir \o <<GENERATED_IMAGES_OLD, PNG_FILE>>,
          BaseDir \o <<<<"super_personal_agent">>, <<"uploads">>, <<"images">>, PNG_FILE>>,
          BaseDir \o <<<<"super_personal_agent">>, <<"uploads">>, <<"audio">>, MP3_FILE>>,
          <<ENV_FILE>>}

NotThere == [found |-> FALSE, at |-> <<>>]

\* What the operating system finds when it walks the segments from cur
RECURSIVE Walk(_, _)
Walk(cur, segs) ==
    IF segs = <<>> THEN [found |-> TRUE, at |-> cur]
    ELSE IF cur \notin Directories THEN NotThere
    ELSE IF Head(segs) = DOTDOT
         THEN Walk(IF cur = <<>> THEN cur ELSE SubSeq(cur, 1, Len(cur) - 1), Tail(segs))
         ELSE LET child == Append(cur, Head(segs))
              IN IF child \in Directories \cup Files
                 THEN Walk(child, Tail(segs))
                 ELSE NotThere

\* full_path = base_dir / file_path, as the operating system resolves it
FullPath(file_path) == Walk(BaseDir, Split(file_path, <<>>))

\* allowed_dirs and the security check of serve_file
allowed_dirs == {GENERATED_IMAGES, GENERATED_AUDIO}

PassesSecurityCheck(file_path) == \E d \in allowed_dirs : StartsWith(file_path, d)

\* "Determine content type"
ContentType(file_path) ==
    IF EndsWith(file_path, <<".mp3">>) THEN "audio/mpeg"
    ELSE IF EndsWith(file_path, <<".png">>) THEN "image/png"
    ELSE IF EndsWith(file_path, <<".jpg">>) THEN "image/jpeg"
    ELSE "application/octet-stream"

NoFileResponse == [status |-> 0, file |-> <<>>, media_type |-> ""]

FileInit ==
    /\ f_pc = "idle"
    /\ f_path = <<>>
    /\ f_response = NoFileResponse

\* What serve_file answers for file_path
ServeFileResponse(file_path) ==
    LET full_path == FullPath(file_path)
    IN IF ~PassesSecurityCheck(file_path)
       THEN [status |-> 403, file |-> <<>>, media_type |-> ""]
       ELSE IF ~full_path.found
       THEN [status |-> 404, file |-> <<>>, media_type |-> ""]
       ELSE IF full_path.at \in Files
       THEN [status |-> 200, file |-> full_path.at,
             media_type |-> ContentType(file_path)]
       ELSE \* FileResponse of a directory fails when the response is sent
            [status |-> 500, file |-> <<>>, media_type |-> ""]

\* GET /api/files/{file_path:path}
serve_file(file_path) ==
    /\ f_pc' = "responded"
    /\ f_path' = file_path
    /\ f_response' = ServeFileResponse(file_path)

ServeFile ==
    /\ f_pc = "idle"
    /\ \E file_path \in FilePaths : serve_file(file_path)
    /\ FileFrame

\* The response has gone out and the request's locals are gone; the server
\* waits for the next request
FileResponseSent ==
    /\ f_pc = "responded"
    /\ f_pc' = "idle"
    /\ f_path' = <<>>
    /\ f_response' = NoFileResponse
    /\ FileFrame

\* ------------------------------------------------------------------------
\* super_personal_agent/backend/main.py: the routes of app, in the order in
\* which the decorators register them
\* ------------------------------------------------------------------------
\* A pattern is a sequence of elements: a literal segment, {name} (one
\* segment) or {name:path} (the rest of the path)
Lit(name) == [kind |-> "lit", name |-> <<name>>]
Param == [kind |-> "param", name |-> <<>>]
PathParam == [kind |-> "path", name |-> <<>>]

Route(methods, pattern, endpoint) ==
    [methods |-> methods, pattern |-> pattern, endpoint |-> endpoint]

\* app.routes
Routes == <<
    Route({"GET"}, <<>>, "root"),
    Route({"GET"}, <<Lit("api"), Lit("health")>>, "health"),
    Route({"GET"}, <<Lit("api"), Lit("routes")>>, "list_routes"),
    Route({"POST"}, <<Lit("api"), Lit("agent"), Lit("capture-photo")>>, "agent_capture_photo"),
    Route({"GET"}, <<Lit("api"), Lit("agent"), Lit("camera-status")>>, "get_camera_status"),
    Route({"POST"}, <<Lit("api"), Lit("agent"), Lit("enable-camera")>>, "enable_agent_camera"),
    Route({"GET"}, <<Lit("api"), Lit("agent"), Lit("poll-capture")>>, "poll_capture"),
    Route({"POST"}, <<Lit("api"), Lit("agent"), Lit("capture-complete")>>, "capture_complete"),
    Route({"POST"}, <<Lit("api"), Lit("chat")>>, "chat"),
    Route({"POST"}, <<Lit("api"), Lit("upload"), Lit("image")>>, "upload_image"),
    Route({"POST"}, <<Lit("api"), Lit("upload"), Lit("audio")>>, "upload_audio"),
    Route({"POST"}, <<Lit("api"), Lit("generate-image")>>, "generate_image"),
    Route({"POST"}, <<Lit("api"), Lit("transcribe-audio")>>, "transcribe_audio"),
    Route({"POST"}, <<Lit("api"), Lit("text-to-speech")>>, "text_to_speech"),
    Route({"POST"}, <<Lit("api"), Lit("chat-with-voice")>>, "chat_with_voice"),
    Route({"GET"}, <<Lit("api"), Lit("files"), PathParam>>, "serve_file"),
    Route({"GET"}, <<Lit("api"), Lit("files"), Lit("uploads"), PathParam>>, "serve_uploaded_file"),
    Route({"GET"}, <<Lit("api"), Lit("conversations")>>, "get_conversations"),
    Route({"GET"}, <<Lit("api"), Lit("conversations"), Param>>, "get_conversation"),
    Route({"DELETE"}, <<Lit("api"), Lit("conversations")>>, "clear_conversations"),
    Route({"DELETE"}, <<Lit("api"), Lit("conversations"), Param>>, "delete_conversation"),
    Route({"GET"}, <<Lit("api"), Lit("stats")>>, "get_stats"),
    Route({"POST"}, <<Lit("api"), Lit("new-conversation")>>, "new_conversation"),
    Route({"GET"}, <<Lit("api"), Lit("conversations"), Lit("sessions")>>, "get_conversation_sessions")
>>

\* The pattern's regular expression matches the whole path
RECURSIVE PathMatches(_, _)
PathMatches(pattern, segs) ==
    IF pattern = <<>> THEN segs = <<>>
    ELSE IF Head(pattern).kind = "path" THEN segs # <<>>
    ELSE /\ segs # <<>>
         /\ Head(pattern).kind = "lit" => Head(segs) = Head(pattern).name
         /\ PathMatches(Tail(pattern), Tail(segs))

\* The string bound to the pattern's path parameter (<<>> if it has none)
RECURSIVE PathParams(_, _)
PathParams(pattern, segs) ==
    IF pattern = <<>> \/ segs = <<>> THEN <<>>
    ELSE IF Head(pattern).kind = "path" THEN Join(segs)
    ELSE IF Head(pattern).kind = "param" THEN Head(segs)
    ELSE PathParams(Tail(pattern), Tail(segs))

\* Match.FULL and Match.PARTIAL of a route
FullMatch(route, request) ==
    PathMatches(route.pattern, request.path) /\ request.method \in route.methods
PartialMatch(route, request) ==
    PathMatches(route.pattern, request.path) /\ request.method \notin route.methods

\* The first route in registration order that matches fully; 0 if none does
FirstFullMatch(request) ==
    LET hits == {i \in 1..Len(Routes) : FullMatch(Routes[i], request)}
    IN IF hits = {} THEN 0 ELSE CHOOSE i \in hits : \A j \in hits : i <= j

\* The requests of the clients: a method and a path without trailing slash
RouteNames == {<<"files">>, <<"uploads">>, <<"conversations">>, <<"sessions">>,
               <<"images">>, <<"stats">>, <<"entry-1">>, PNG_FILE, GENERATED_IMAGES}
Methods == {"GET", "POST", "DELETE"}
RequestPaths ==
    {<<<<"api">>>> \o rest :
        rest \in UNION {[1..n -> RouteNames] : n \in 0..MaxRouteSegments}}
Requests == [method : Methods, path : RequestPaths]

\* The ids of the entries in the conversation history
HistoryEntryIds == {<<"entry-1">>}

\* UPLOAD_DIR
UPLOAD_DIR == BaseDir \o <<<<"super_personal_agent">>, <<"uploads">>>>

RouteResponse(status, body) == [status |-> status, body |-> body]

\* GET /api/files/uploads/{file_path:path}
serve_uploaded_file(file_path) ==
    LET full_path == Walk(UPLOAD_DIR, Split(file_path, <<>>))
    IN IF ~full_path.found THEN {RouteResponse(404, <<>>)}
       ELSE IF full_path.at \in Files THEN {RouteResponse(200, full_path.at)}
       ELSE {RouteResponse(500, <<>>)}

\* GET /api/conversations/{conversation_id}
get_conversation(conversation_id) ==
    IF conversation_id \in HistoryEntryIds
    THEN {RouteResponse(200, conversation_id)}
    ELSE {RouteResponse(404, <<>>)}

\* GET /api/conversations/sessions
get_conversation_sessions == {RouteResponse(200, <<"sessions">>), RouteResponse(500, <<>>)}

\* The responses of the endpoint the router called; the endpoints that have
\* no path parameter answer with their own result or with an error
EndpointResponses(endpoint, param) ==
    CASE endpoint = "serve_file" ->
            LET r == ServeFileResponse(param) IN {RouteResponse(r.status, r.file)}
      [] endpoint = "serve_uploaded_file" -> serve_uploaded_file(param)
      [] endpoint = "get_conversation" -> get_conversation(param)
      [] endpoint = "get_conversation_sessions" -> get_conversation_sessions
      [] OTHER -> {RouteResponse(200, <<endpoint>>), RouteResponse(500, <<>>)}

NoRequest == [method |-> "", path |-> <<>>]
NoRouteResponse == RouteResponse(0, <<>>)

RouteInit ==
    /\ d_pc = "idle"
    /\ d_request = NoRequest
    /\ d_endpoint = ""
    /\ d_params = <<>>
    /\ d_response = NoRouteResponse

\* Router.__call__: the first full match is called; a path that only matches
\* routes of other methods is answered 405, and an unknown path 404
dispatch(request) ==
    LET i == FirstFullMatch(request)
    IN /\ d_pc' = "responded"
       /\ d_request' = request
       /\ IF i # 0
          THEN /\ d_endpoint' = Routes[i].endpoint
               /\ d_params' = PathParams(Routes[i].pattern, request.path)
               /\ d_response' \in EndpointResponses(Routes[i].endpoint,
                                    PathParams(Routes[i].pattern, request.path))
          ELSE /\ d_endpoint' = ""
               /\ d_params' = <<>>
               /\ d_response' =
                    IF \E j \in 1..Len(Routes) : PartialMatch(Routes[j], request)
                    THEN RouteResponse(405, <<>>)
                    ELSE RouteResponse(404, <<>>)

Dispatch ==
    /\ d_pc = "idle"
    /\ \E request \in Requests : dispatch(request)
    /\ RouteFrame

\* The response has gone out; the server waits for the next request
RouteResponseSent ==
    /\ d_pc = "responded"
    /\ d_pc' = "idle"
    /\ d_request' = NoRequest
    /\ d_endpoint' = ""
    /\ d_params' = <<>>
    /\ d_response' = NoRouteResponse
    /\ RouteFrame

\* ------------------------------------------------------------------------
\* super_personal_agent/backend/main.py: transcribe_audio
\* ------------------------------------------------------------------------
\* UPLOAD_DIR_AUDIO
UPLOAD_DIR_AUDIO == UPLOAD_DIR \o <<<<"audio">>>>

MISSING_FILE == <<"missing", ".mp3">>

\* The audio_path values of the requests
AudioPaths ==
    {Join(segs) :
        segs \in UNION {[1..n -> {MP3_FILE, MISSING_FILE, DOTDOT, <<"audio">>}] :
                            n \in 0..MaxAudioSegments}}

Languages == {None, Some(<<"en">>)}

\* A request with what it meets at the server: whether multimodal_tools can
\* be imported and whether speech_to_text returns a transcript or raises
AudioRequests ==
    [audio_path : AudioPaths, language : Languages,
     import_ok : BOOLEAN, speech_to_text : {"transcript", "raises"}]

\* The exception classes and their base classes
BaseClass(class) ==
    CASE class = "HTTPException" -> "Exception"
      [] class = "ImportError" -> "Exception"
      [] class = "RuntimeError" -> "Exception"
      [] OTHER -> "BaseException"

\* isinstance(e, clause): what an except clause catches
Catches(clause, class) == class = clause \/ BaseClass(class) = clause

Raised(class, status, detail) ==
    [raised |-> TRUE, class |-> class, status |-> status, detail |-> detail]
Returned(transcript) ==
    [raised |-> FALSE, class |-> "", status |-> 200, detail |-> transcript]

\* str(e) of what the try block raised
StrOfException(e) ==
    IF e.class = "HTTPException" THEN Str(e.status) \o <<": ">> \o e.detail
    ELSE e.detail

\* The body of the try block of transcribe_audio
TranscribeBody(request) ==
    IF ~request.import_ok
    THEN Raised("ImportError", 0, <<"No module named 'multimodal_tools'">>)
    ELSE IF ~Walk(UPLOAD_DIR_AUDIO, Split(request.audio_path, <<>>)).found
    THEN Raised("HTTPException", 404, <<"Audio file not found">>)
    ELSE IF request.speech_to_text = "raises"
    THEN Raised("RuntimeError", 0, <<"transcription failed">>)
    ELSE Returned(<<"transcript of ">> \o request.audio_path)

\* The except clause of transcribe_audio
TranscribeExcept == "Exception"

\* POST /api/transcribe-audio
transcribe_audio(request) ==
    LET body == TranscribeBody(request)
    IN /\ a_pc' = "responded"
       /\ a_request' = request
       /\ a_response' =
            IF ~body.raised
            THEN [status |-> 200, detail |-> body.detail]
            ELSE IF Catches(TranscribeExcept, body.class)
            THEN [status |-> 500,
                  detail |-> <<"Error transcribing audio: ">> \o StrOfException(body)]
            ELSE [status |-> body.status, detail |-> body.detail]

NoAudioRequest ==
    [audio_path |-> <<>>, language |-> None, import_ok |-> TRUE,
     speech_to_text |-> "transcript"]
NoAudioResponse == [status |-> 0, detail |-> <<>>]

AudioInit ==
    /\ a_pc = "idle"
    /\ a_request = NoAudioRequest
    /\ a_response = NoAudioResponse

TranscribeAudio ==
    /\ a_pc = "idle"
    /\ \E request \in AudioRequests : transcribe_audio(request)
    /\ AudioFrame

\* The response has gone out; the server waits for the next request
AudioResponseSent ==
    /\ a_pc = "responded"
    /\ a_pc' = "idle"
    /\ a_request' = NoAudioRequest
    /\ a_response' = NoAudioResponse
    /\ AudioFrame

\* ------------------------------------------------------------------------
\* super_personal_agent/backend/main.py: the conversation history
\* ------------------------------------------------------------------------
\* "Keep only last 1000 conversations"
HISTORY_LIMIT == 1000

UserMessages == {"hello", "describe this image"}

\* The conversation_id argument: absent, or the id of an earlier conversation
ConversationIdArgs == {None, Some(Str(0))}

\* The entry add_conversation_entry builds
Entry(id, conversation_id, timestamp, user_message) ==
    [id |-> id, conversation_id |-> conversation_id, timestamp |-> timestamp,
     user_message |-> user_message]

\* The history earlier server processes left in HISTORY_FILE: n entries of
\* conversation 0, with ids 1..n
EarlierHistory(n) == [i \in 1..n |-> Entry(Str(i), Str(0), 0, "hello")]

\* What the file holds when the server starts: nothing, or a history one
\* short of the limit, or a history at the limit
EarlierHistoryLengths == {0, HISTORY_LIMIT - 1, HISTORY_LIMIT}

HistoryFileOf(history) == [valid |-> TRUE, entries |-> history]
CorruptHistoryFile == [valid |-> FALSE, entries |-> <<>>]

\* load_history: the entries of the file, [] if it cannot be parsed
load_history == IF c_file.valid THEN c_file.entries ELSE <<>>

\* save_history leaves one of these files: the new history, or the old file
\* when the directory or the file cannot be opened, or a truncated file when
\* json.dump fails after open(..., 'w')
SaveHistoryOutcomes(history) ==
    {[failed |-> FALSE, file |-> HistoryFileOf(history)]}
        \cup (IF c_failures < MaxHistorySaveFailures
              THEN {[failed |-> TRUE, file |-> c_file],
                    [failed |-> TRUE, file |-> CorruptHistoryFile]}
              ELSE {})

\* history[-HISTORY_LIMIT:]
KeepFirst(history) == SubSeq(history, 1, HISTORY_LIMIT)

KeepLast(history) == SubSeq(history, Len(history) - HISTORY_LIMIT + 1, Len(history))

NoEntry == Entry(<<>>, <<>>, 0, "")

\* The server starts over a HISTORY_FILE of n entries
HistoryInitWith(n) ==
    /\ c_file = HistoryFileOf(EarlierHistory(n))
    /\ c_added = EarlierHistory(n)
    /\ c_current_id = Some(Str(n + 1))
    /\ c_uuid = n + 2
    /\ c_calls = 0
    /\ c_resets = 0
    /\ c_failures = 0
    /\ c_entry = NoEntry

\* The first start of the server: there is no history yet
HistoryInit == HistoryInitWith(0)

\* A start of the server over the history earlier processes left
HistoryInitAfterEarlierRuns == \E n \in EarlierHistoryLengths : HistoryInitWith(n)

\* add_conversation_entry(user_message, agent_response, image_path, conversation_id)
add_conversation_entry(user_message, conversation_id_arg) ==
    LET fresh_id == c_current_id.isNone /\ conversation_id_arg.isNone
        current == IF fresh_id THEN Some(Str(c_uuid)) ELSE c_current_id
        first_uuid == IF fresh_id THEN c_uuid + 1 ELSE c_uuid
        conversation_id == IF conversation_id_arg.isNone THEN current.s
                           ELSE conversation_id_arg.s
        entry == Entry(Str(first_uuid), conversation_id, c_calls + 1, user_message)
        appended == Append(load_history, entry)
        history == IF Len(appended) > HISTORY_LIMIT THEN KeepLast(appended)
                   ELSE appended
    IN /\ c_current_id' = (IF conversation_id_arg.isNone THEN current ELSE c_current_id)
       /\ c_uuid' = first_uuid + 1
       /\ c_calls' = c_calls + 1
       /\ c_added' = Append(c_added, entry)
       /\ c_entry' = entry
       /\ \E outcome \in SaveHistoryOutcomes(history) :
             /\ c_file' = outcome.file
             /\ c_failures' = c_failures + (IF outcome.failed THEN 1 ELSE 0)
       /\ UNCHANGED c_resets

AddConversationEntry ==
    /\ c_calls < MaxAdds
    /\ \E user_message \in UserMessages, conversation_id \in ConversationIdArgs :
          add_conversation_entry(user_message, conversation_id)
    /\ HistoryFrame

\* reset_agent_conversation (POST /api/new-conversation)
reset_agent_conversation ==
    /\ c_current_id' = Some(Str(c_uuid))
    /\ c_uuid' = c_uuid + 1
    /\ c_resets' = c_resets + 1
    /\ UNCHANGED <<c_file, c_calls, c_failures, c_added, c_entry>>

NewConversation ==
    /\ c_resets < MaxResets
    /\ reset_agent_conversation
    /\ HistoryFrame

\* ------------------------------------------------------------------------
\* super_personal_agent/backend/main.py: agent-controlled camera capture
\* ------------------------------------------------------------------------
CameraResponse(endpoint, status, capture_id, enabled, queue) ==
    [endpoint |-> endpoint, status |-> status, capture_id |-> capture_id,
     enabled |-> enabled, queue |-> queue]

NoCameraResponse == CameraResponse("", "", <<>>, FALSE, <<>>)

\* camera_capture_queue[-5:]
LastFive(queue) ==
    IF Len(queue) <= 5 THEN queue ELSE SubSeq(queue, Len(queue) - 4, Len(queue))

CameraInit ==
    /\ agent_camera_enabled = FALSE
    /\ camera_capture_queue = <<>>
    /\ cam_uuid = 1
    /\ cam_issued = {}
    /\ cam_response = NoCameraResponse

\* "if not agent_camera_enabled"
CameraControlOffNever == FALSE

CameraControlOff == ~agent_camera_enabled

\* POST /api/agent/capture-photo
agent_capture_photo ==
    IF CameraControlOff
    THEN /\ cam_response' = CameraResponse("agent_capture_photo", "error", <<>>,
                                           FALSE, <<>>)
         /\ UNCHANGED <<agent_camera_enabled, camera_capture_queue, cam_uuid,
                        cam_issued>>
    ELSE LET capture_id == Str(cam_uuid)
         IN /\ camera_capture_queue' =
                  Append(camera_capture_queue,
                         [id |-> capture_id, timestamp |-> cam_uuid])
            /\ cam_uuid' = cam_uuid + 1
            /\ cam_issued' = cam_issued \cup {capture_id}
            /\ cam_response' = CameraResponse("agent_capture_photo", "success",
                                              capture_id, FALSE, <<>>)
            /\ UNCHANGED agent_camera_enabled

AgentCapturePhoto ==
    /\ cam_uuid <= MaxCaptures
    /\ agent_capture_photo
    /\ CameraFrame

\* GET /api/agent/camera-status
get_camera_status ==
    /\ cam_response' = CameraResponse("get_camera_status", "", <<>>,
                                      agent_camera_enabled,
                                      LastFive(camera_capture_queue))
    /\ UNCHANGED <<agent_camera_enabled, camera_capture_queue, cam_uuid, cam_issued>>

GetCameraStatus ==
    /\ get_camera_status
    /\ CameraFrame

\* POST /api/agent/enable-camera
enable_agent_camera(enabled) ==
    /\ agent_camera_enabled' = enabled
    /\ cam_response' = CameraResponse("enable_agent_camera", "success", <<>>,
                                      enabled, <<>>)
    /\ UNCHANGED <<camera_capture_queue, cam_uuid, cam_issued>>

EnableAgentCamera ==
    /\ \E enabled \in BOOLEAN : enable_agent_camera(enabled)
    /\ CameraFrame

\* GET /api/agent/poll-capture
poll_capture ==
    IF camera_capture_queue # <<>>
    THEN /\ camera_capture_queue' = Tail(camera_capture_queue)
         /\ cam_response' = CameraResponse("poll_capture", "capture_requested",
                                           Head(camera_capture_queue).id, FALSE, <<>>)
         /\ UNCHANGED <<agent_camera_enabled, cam_uuid, cam_issued>>
    ELSE /\ cam_response' = CameraResponse("poll_capture", "no_capture", <<>>,
                                           FALSE, <<>>)
         /\ UNCHANGED <<agent_camera_enabled, camera_capture_queue, cam_uuid,
                        cam_issued>>

PollCapture ==
    /\ poll_capture
    /\ CameraFrame

\* POST /api/agent/capture-complete
capture_complete(capture_id) ==
    /\ cam_response' = CameraResponse("capture_complete", "success", capture_id,
                                      FALSE, <<>>)
    /\ UNCHANGED <<agent_camera_enabled, camera_capture_queue, cam_uuid, cam_issued>>

CaptureComplete ==
    /\ \E capture_id \in cam_issued : capture_complete(capture_id)
    /\ CameraFrame

\* ------------------------------------------------------------------------
\* Specifications
\* ------------------------------------------------------------------------
Init == TaskInit /\ RetryInit /\ HttpInit /\ ToolInit /\ ParInit
        /\ FileInit /\ RouteInit /\ AudioInit /\ HistoryInit /\ CameraInit

\* One server process, started with no tasks.json
TaskNext == CreateTask \/ ListTasks \/ CompleteTask \/ DeleteTask \/ GetTask

TaskSpec == Init /\ [][TaskNext]_vars

\* The calls that write tasks.json, with restarts of the server process
PersistNext == CreateTask \/ CompleteTask \/ DeleteTask \/ Restart

PersistSpec == Init /\ [][PersistNext]_vars

\* Calls of a function decorated with retry_with_backoff. func returns or
\* raises every time it is invoked and time.sleep returns, so an iteration
\* that has started finishes.
RetryNext == CallWrapper \/ RetryAttempt \/ RetryFallThrough

RetrySpec == Init /\ [][RetryNext]_vars
             /\ WF_vars(RetryAttempt) /\ WF_vars(RetryFallThrough)

\* Calls of _request_with_retries
HttpNext == RequestWithRetries \/ RequestAttempt

HttpSpec == Init /\ [][HttpNext]_vars

\* Calls of execute_tool
ToolNext == ExecuteTool

ToolSpec == Init /\ [][ToolNext]_vars

\* Calls of _execute_parallel: the main thread and the pool's workers
ParNext == ExecuteParallel \/ Submit \/ WorkerGenerate \/ WorkerGatherContext
           \/ WorkerRefine \/ Collect \/ ReturnParallel

ParSpec == Init /\ [][ParNext]_vars

\* Requests to GET /api/files/{file_path:path}
FileNext == ServeFile \/ FileResponseSent

FileSpec == Init /\ [][FileNext]_vars

\* Requests to the routes of app
RouteNext == Dispatch \/ RouteResponseSent

RouteSpec == Init /\ [][RouteNext]_vars

\* Requests to POST /api/transcribe-audio
AudioNext == TranscribeAudio \/ AudioResponseSent

AudioSpec == Init /\ [][AudioNext]_vars

\* The conversation history of one server process
HistoryNext == AddConversationEntry \/ NewConversation

InitAfterEarlierRuns ==
    /\ TaskInit /\ RetryInit /\ HttpInit /\ ToolInit /\ ParInit
    /\ FileInit /\ RouteInit /\ AudioInit /\ HistoryInitAfterEarlierRuns /\ CameraInit

HistorySpec == InitAfterEarlierRuns /\ [][HistoryNext]_vars

\* The camera endpoints
CameraNext == AgentCapturePhoto \/ GetCameraStatus \/ EnableAgentCamera
                \/ PollCapture \/ CaptureComplete

CameraSpec == Init /\ [][CameraNext]_vars

\* ========================================================================
\* Claims
\* ========================================================================
\* The IDs handed out are pairwise different and each is one more than the
\* one before it
ConsecutiveIds(ids) ==
    /\ \A i, j \in 1..Len(ids) : i < j => ids[i] # ids[j]
    /\ \A i \in 2..Len(ids) : IdNum(ids[i]) = IdNum(ids[i - 1]) + 1

\* C1: within one server process started from an empty store, every successful
\* create_task returns an ID different from all IDs returned before it; the IDs
\* are consecutive increasing integers and are never reused, also after the
\* task holding one was deleted.
C1_IdsUniqueAndIncreasing == ConsecutiveIds(issued)

\* C1 witness: a second create_task succeeded after the task holding the
\* first ID was deleted.
C1_Witness ==
    /\ Len(issued) = 2
    /\ req.op = "create_task" /\ resp.kind = "success"
    /\ issued[1] \notin DOMAIN tasks
    /\ issued[2] \in DOMAIN tasks

\* C7: complete_task on an existing pending task sets its status to
\* "completed" and returns success; on an unknown ID or an already completed
\* task it returns an error and leaves the store and tasks.json unchanged; no
\* step of the server turns a completed task back to pending.
C7_CompleteOneWay ==
    [][/\ req'.op = "complete_task" =>
            LET id == req'.task_id
            IN IF id \in DOMAIN tasks /\ tasks[id].status = "pending"
               THEN /\ resp'.kind = "success"
                    /\ id \in DOMAIN tasks'
                    /\ tasks'[id].status = "completed"
               ELSE /\ resp'.kind = "error"
                    /\ tasks' = tasks
                    /\ tasks_file' = tasks_file
                    /\ saved' = "none"
       /\ \A id \in DOMAIN tasks \cap DOMAIN tasks' :
            tasks[id].status = "completed" => tasks'[id].status = "completed"
      ]_vars

\* C7 witness: complete_task was called on a task that was already completed
\* and answered with an error, the task still being completed.
C7_Witness ==
    /\ req.op = "complete_task"
    /\ resp.kind = "error"
    /\ req.task_id \in DOMAIN tasks
    /\ tasks[req.task_id].status = "completed"

\* C8: create_task with an empty or whitespace-only title returns an error and
\* changes nothing: no task is added, _next_task_id is not advanced and
\* tasks.json is not written.
C8_BlankTitleRejected ==
    [][(req'.op = "create_task" /\ Strip(req'.title) = <<>>) =>
            /\ resp'.kind = "error"
            /\ tasks' = tasks
            /\ next_task_id' = next_task_id
            /\ tasks_file' = tasks_file
            /\ saved' = "none"
      ]_vars

\* C8 witness: a whitespace-only title was rejected while the store held a
\* task and the next ID was still to be handed out.
C8_Witness ==
    /\ req.op = "create_task"
    /\ req.title = <<" ", " ">>
    /\ resp.kind = "error"
    /\ DOMAIN tasks # {}
    /\ next_task_id = 2

\* C9: as long as every _save_tasks succeeded, what _load_tasks reads from
\* tasks.json is exactly the tasks in memory, with the same fields, and the
\* same _next_task_id; so the IDs handed out across restarts stay consecutive
\* and are never reused.
C9_PersistenceRoundTrip ==
    save_failures = 0 =>
        /\ LoadTasks(tasks_file) = [tasks |-> tasks, next_id |-> next_task_id]
        /\ ConsecutiveIds(issued)

\* C9 witness: after a restart with all saves successful, the store holds a
\* completed task from before the restart and create_task has handed out the
\* next ID.
C9_Witness ==
    /\ restarts >= 1
    /\ save_failures = 0
    /\ req.op = "create_task" /\ resp.kind = "success"
    /\ Len(issued) = 2
    /\ issued[1] \in DOMAIN tasks
    /\ tasks[issued[1]].status = "completed"
    /\ "completed_at" \in DOMAIN tasks[issued[1]]

\* base^k
RECURSIVE Pow(_, _)
Pow(base, k) == IF k = 0 THEN 1 ELSE base * Pow(base, k - 1)

RetryDone == r_pc \in {"returned", "raised", "fell_through"}

C2_Safe ==
    LET n == Len(r_log)
        max_retries == r_params.max_retries
    IN max_retries >= 0 =>
        \* at most max_retries + 1 invocations
        /\ n <= max_retries + 1
        \* it returns the result of the first invocation that does not raise
        /\ r_pc = "returned" =>
              /\ r_log[n].kind = "ok"
              /\ \A i \in 1..(n - 1) : r_log[i].kind = "error"
              /\ r_result = [kind |-> "value", call |-> n, msg |-> <<>>]
        \* or re-raises the exception of the last invocation made
        /\ r_pc = "raised" =>
              /\ r_log[n].kind = "error"
              /\ \A i \in 1..(n - 1) : r_log[i].kind = "error"
              /\ r_result = [kind |-> "exception", call |-> n, msg |-> r_log[n].msg]
        /\ r_pc # "fell_through"
        \* a rate-limit error before the last attempt is never the one raised:
        \* it is followed by exactly one sleep and the next invocation
        /\ \A i \in 1..n :
              (IsRateLimit(r_log[i].msg) /\ r_log[i].kind = "error" /\ i - 1 < max_retries) =>
                  /\ Len(r_sleeps) >= i
                  /\ (i = n => r_pc = "loop" /\ r_attempt = i /\ Len(r_sleeps) = i)

\* C2: for max_retries >= 0, wrapper invokes func at most max_retries + 1
\* times and always ends; it returns the result of the first invocation that
\* does not raise or re-raises the exception of the last invocation; after a
\* rate-limit error on an attempt before the last it sleeps once and invokes
\* func again.
C2_RetryBoundedAndTerminates ==
    /\ []C2_Safe
    /\ (r_pc = "loop") ~> RetryDone

\* C2 witness: with max_retries = 2, two rate-limit errors were each followed
\* by a sleep and the third invocation raised, which wrapper re-raised.
C2_Witness ==
    /\ r_params.max_retries = 2
    /\ r_pc = "raised"
    /\ Len(r_log) = 3
    /\ Len(r_sleeps) = 2
    /\ r_log[1].msg = <<"Quota", "exceeded">>
    /\ r_log[3].msg = <<"boom">>

\* C6: with jitter off the sleep before the k-th retry (k = 0, 1, ...) is
\* min(initial_delay * exponential_base^k, max_delay); with jitter on or off
\* no sleep is longer than max_delay.
C6_BackoffDelays ==
    \A i \in 1..Len(r_sleeps) :
        /\ r_sleeps[i] <= r_params.max_delay
        /\ ~r_params.jitter =>
              r_sleeps[i] = Min(r_params.initial_delay
                                  * Pow(r_params.exponential_base, i - 1),
                                r_params.max_delay)

\* C6 witness: with jitter on, a sleep was capped at max_delay although
\* delay plus jitter was larger, after an earlier uncapped sleep.
C6_Witness ==
    /\ r_params.jitter
    /\ Len(r_sleeps) = 2
    /\ r_sleeps[1] < r_params.max_delay
    /\ r_sleeps[2] = r_params.max_delay
    /\ r_delay > r_params.max_delay

\* An attempt ended in an HTTP error: a transport exception or timeout, or a
\* response with an HTTP error status
IsHttpError(out) ==
    \/ out.kind = "exception" /\ out.exc \in RequestExceptions
    \/ out.kind = "response" /\ out.status >= 400

\* C3: _request_with_retries retries on HTTP error: an attempt that ends in an
\* HTTP error (transport exception, timeout, or a response with an error status
\* such as 429 or 5xx) with fewer than RETRY_ATTEMPTS retries made is followed
\* by a wait and another request; at most RETRY_ATTEMPTS + 1 requests are made
\* and the last error is given up on only after all of them failed.
C3_RetriesOnHttpError ==
    LET n == Len(h_log)
    IN /\ n <= RETRY_ATTEMPTS + 1
       /\ \A i \in 1..n :
            (IsHttpError(h_log[i]) /\ i - 1 < RETRY_ATTEMPTS) =>
                /\ Len(h_sleeps) >= i
                /\ (i = n => h_pc = "loop")

\* What execute_tool does for a registered name: the tool runs once with the
\* given arguments plus the defaults, or a missing or unexpected argument
\* gives an error string; it never raises
C4_RegisteredDispatch ==
    t_name \in TOOL_FUNCTIONS(t_module) =>
        LET expected ==
                [a \in DOMAIN t_args
                       \cup (IF t_name = "web_search" THEN {"num_results"} ELSE {})
                       \cup (IF t_name = "get_current_time" THEN {"timezone"} ELSE {}) |->
                    IF a \in DOMAIN t_args THEN t_args[a]
                    ELSE IF a = "num_results" THEN 5 ELSE "UTC"]
        IN /\ ~t_raised
           /\ IF Required(t_name) \subseteq DOMAIN t_args
                 /\ DOMAIN t_args \subseteq Required(t_name) \cup Optional(t_name)
              THEN /\ t_calls = <<[func |-> t_name, args |-> expected]>>
                   /\ t_result = ToolOutput(t_name)
              ELSE /\ t_calls = <<>>
                   /\ t_result = <<"Error executing ", t_name, ": ", "TypeError">>

\* C4 (as stated): ... for an unregistered name execute_tool calls no tool and
\* returns the string "Error: Tool '<name>' not found".
C4_AsStated ==
    /\ C4_RegisteredDispatch
    /\ (t_name # "" /\ t_name \notin TOOL_FUNCTIONS(t_module)) =>
          /\ t_calls = <<>>
          /\ ~t_raised
          /\ t_result = <<"Error: Tool '", t_name, "' not found">>

\* C4 (amended): execute_tool looks a tool up by name: a registered name runs
\* exactly that function once with the given arguments (num_results=5 for
\* web_search and timezone='UTC' for get_current_time added when absent); an
\* unregistered name runs no tool and returns "Error: Tool '<name>' not found"
\* in tool_agent.py and "Error: Tool '<name>' not found in native tools" in
\* tool_agent_with_mcp.py; a missing or unexpected argument gives an error
\* string, never an exception.
C4_ToolDispatch ==
    /\ C4_RegisteredDispatch
    /\ (t_name # "" /\ t_name \notin TOOL_FUNCTIONS(t_module)) =>
          /\ t_calls = <<>>
          /\ ~t_raised
          /\ t_result = IF t_module = "tool_agent"
                        THEN <<"Error: Tool '", t_name, "' not found">>
                        ELSE <<"Error: Tool '", t_name, "' not found in native tools">>

\* C4 witness: web_search was called with a num_results of its own and ran
\* with it; the defaults did not replace it.
C4_Witness ==
    /\ t_name = "web_search"
    /\ t_module = "tool_agent_with_mcp"
    /\ DOMAIN t_args = {"query", "num_results"}
    /\ Len(t_calls) = 1
    /\ t_calls[1].args["num_results"] = 3

\* C5: _execute_parallel, given two or more distinct agent names, runs the same
\* per-agent function for every listed agent, returns only after every agent's
\* execution has completed, and its 'responses' map has exactly one entry per
\* listed agent, keyed by the agent's name and holding that agent's own
\* response, whatever the interleaving of the workers.
C5_ParallelResponses ==
    p_pc = "returned" =>
        /\ \A name \in Range(p_names) :
              /\ p_thr[name].pc = "done"
              /\ p_generated[name] >= 1
        /\ \A name \in Agents \ Range(p_names) :
              p_thr[name].pc = "idle" /\ p_generated[name] = 0
        /\ DOMAIN p_ret.responses = Range(p_names)
        /\ \A name \in DOMAIN p_ret.responses :
              /\ p_ret.responses[name].agent = name
              /\ p_ret.responses[name].response.by = name
              /\ p_ret.responses[name] = p_thr[name].result

\* C5 witness: a call with consultation returned where one agent answered
\* before any result was in and another refined its answer with the first
\* one's result.
C5_Witness ==
    /\ p_pc = "returned"
    /\ p_consult
    /\ Len(p_names) >= 2
    /\ \E a, b \in Range(p_names) :
          /\ ~p_ret.responses[a].response.refined
          /\ p_ret.responses[b].response.refined
          /\ p_ret.responses[b].original.by = b

\* Where base_dir / file_path points once its ".." segments are taken out
RECURSIVE Normalize(_, _)
Normalize(cur, segs) ==
    IF segs = <<>> THEN cur
    ELSE IF Head(segs) = DOTDOT
         THEN Normalize(IF cur = <<>> THEN cur ELSE SubSeq(cur, 1, Len(cur) - 1),
                        Tail(segs))
         ELSE Normalize(Append(cur, Head(segs)), Tail(segs))

\* The path lies inside generated_images or generated_audio under base_dir
InsideAllowedDir(abs) ==
    \E d \in {GENERATED_IMAGES, GENERATED_AUDIO} :
        /\ Len(abs) > Len(BaseDir)
        /\ SubSeq(abs, 1, Len(BaseDir) + 1) = BaseDir \o <<d>>

\* C10: serve_file returns a file only when the requested file lies inside
\* generated_images or generated_audio under the base directory: a path that
\* resolves outside those two directories (through ".." segments, or through a
\* directory whose name merely begins with an allowed name) is answered 403,
\* and a path inside them that does not exist is answered 404.
C10_ServesOnlyAllowedDirs ==
    f_pc = "responded" =>
        LET target == Normalize(BaseDir, Split(f_path, <<>>))
        IN /\ f_response.status = 200 => InsideAllowedDir(f_response.file)
           /\ ~InsideAllowedDir(target) => f_response.status = 403
           /\ (InsideAllowedDir(target) /\ target \notin Files \cup Directories) =>
                 f_response.status = 404

\* The request asks for /api/files/uploads/<path>
AsksForUploadedFile(request) ==
    /\ request.method = "GET"
    /\ Len(request.path) > 3
    /\ SubSeq(request.path, 1, 3) = <<<<"api">>, <<"files">>, <<"uploads">>>>

\* The request asks for /api/conversations/sessions
AsksForSessions(request) ==
    /\ request.method = "GET"
    /\ request.path = <<<<"api">>, <<"conversations">>, <<"sessions">>>>

\* C11: every documented endpoint path reaches its own handler under the
\* registration order of the routes: GET /api/conversations/sessions is
\* served by get_conversation_sessions and returns the grouped entries, and
\* GET /api/files/uploads/<path> is served by serve_uploaded_file and returns
\* the uploaded file.
C11_RoutesReachTheirHandlers ==
    d_pc = "responded" =>
        /\ AsksForSessions(d_request) =>
              /\ d_endpoint = "get_conversation_sessions"
              /\ d_response.status \in {200, 500}
        /\ AsksForUploadedFile(d_request) =>
              /\ d_endpoint = "serve_uploaded_file"
              /\ LET target == Walk(UPLOAD_DIR, SubSeq(d_request.path, 4, Len(d_request.path)))
                 IN (target.found /\ target.at \in Files) =>
                        d_response = RouteResponse(200, target.at)

\* The requested audio file exists under uploads/audio
AudioFileExists(request) ==
    Walk(UPLOAD_DIR_AUDIO, Split(request.audio_path, <<>>)).found

\* C12: transcribe_audio responds with HTTP 404 'Audio file not found' when
\* the requested audio file does not exist under uploads/audio, and responds
\* with HTTP 500 only for other failures (import or transcription errors).
C12_MissingAudioIs404 ==
    a_pc = "responded" =>
        /\ (a_request.import_ok /\ ~AudioFileExists(a_request)) =>
              a_response = [status |-> 404, detail |-> <<"Audio file not found">>]
        /\ a_response.status = 500 =>
              \/ ~a_request.import_ok
              \/ AudioFileExists(a_request) /\ a_request.speech_to_text = "raises"

\* The last n elements of a sequence, all of it when it has no more than n
LastN(seq, n) ==
    IF Len(seq) <= n THEN seq ELSE [i \in 1..n |-> seq[Len(seq) - n + i]]

\* C13: after any sequence of add_conversation_entry calls whose saves
\* succeed, the persisted history holds at most 1000 entries, and they are
\* exactly the most recently added entries in insertion order; beyond the
\* limit only the oldest entries are dropped.
C13_HistoryKeepsLastThousand ==
    c_failures = 0 =>
        /\ c_file.valid
        /\ Len(c_file.entries) <= 1000
        /\ c_file.entries = LastN(c_added, 1000)

\* Two entries were added and saved, and the history has outgrown the limit
C13_Witness ==
    /\ c_failures = 0
    /\ c_calls >= 2
    /\ Len(c_added) > 1000
    /\ Len(c_file.entries) = 1000
    /\ c_file.entries[1000] = c_entry
    /\ c_file.entries[1] # c_added[1]

\* C14: agent_capture_photo enqueues a capture request and returns status
\* 'success' with a fresh capture_id only when agent camera control is
\* enabled at the time of the request; when it is disabled it returns status
\* 'error' and leaves the capture queue unchanged.
C14_CaptureOnlyWhenEnabled ==
    [][cam_response'.endpoint = "agent_capture_photo" =>
          IF agent_camera_enabled
          THEN /\ cam_response'.status = "success"
               /\ cam_response'.capture_id \notin cam_issued
               /\ \A i \in 1..Len(camera_capture_queue) :
                     camera_capture_queue[i].id # cam_response'.capture_id
               /\ Len(camera_capture_queue') = Len(camera_capture_queue) + 1
               /\ SubSeq(camera_capture_queue', 1, Len(camera_capture_queue))
                     = camera_capture_queue
               /\ camera_capture_queue'[Len(camera_capture_queue')].id
                     = cam_response'.capture_id
          ELSE /\ cam_response'.status = "error"
               /\ camera_capture_queue' = camera_capture_queue]_vars

\* A capture was requested and queued while the camera was enabled, after an
\* earlier capture id had been handed out and polled
C14_Witness ==
    /\ agent_camera_enabled
    /\ cam_response.endpoint = "agent_capture_photo"
    /\ cam_response.status = "success"
    /\ Cardinality(cam_issued) >= 2
    /\ Len(camera_capture_queue) = 1
    /\ camera_capture_queue[1].id = cam_response.capture_id

====
